---- MODULE Spec2Model ----
(***************************************************************************)
(* GroupByOp of flex/engines/hqps_db/core/operator/group_by.h: the result  *)
(* type resolution (GroupResT, FoldResT, Rearrange, CommonBuilderT) and    *)
(* the three grouping paths (GroupByWithoutKeyImpl, GroupByImpl with one   *)
(* key, GroupByImpl with two keys), one step per loop iteration.           *)
(*                                                                         *)
(* Context, the keyed set builder, the raw set builders, the aggregate     *)
(* value builders and make_offset_vector live in other headers of the      *)
(* repository (context.h, keyed.h, ...); they are modelled at their        *)
(* interface, from the specification.                                      *)
(***************************************************************************)
EXTENDS Integers, Sequences, FiniteSets, TLC

\* ---------------------------------------------------------------- bounds
MaxRows == 4        \* rows the context iterator yields at most
MaxAgg == 2         \* aggregate descriptors at most
MaxTag == 2         \* highest tag of the input context at most
MaxOff == 2         \* highest offset of a row in the sub-task start column

\* ------------------------------------------------------------- constants
INVALID_TAG == -1

Vertices == {"A", "B", "C"}      \* index elements of the key column (one key)
Key0Set == {"A", "B"}            \* index elements of key column 0 (two keys)
Key1Set == {"x", "y"}            \* index elements of key column 1 (two keys)
DataVals == {10, 20}             \* elements of the aggregated column
NoKey == "-"

\* The graphs: vertex -> value of the key property. One map that sends two
\* vertices to one value and the third to another: rows over A and C share a
\* property value, rows over A and B do not, so every way property values
\* can coincide along a row sequence occurs, up to renaming.
Graphs == {[v \in Vertices |-> IF v = "B" THEN "q" ELSE "p"]}

Modes == {"single", "two", "fold"}

VARIABLES
  mode,                    \* which overload the plan calls
  key_on_prop,             \* <<b0, b1>>: group_key_on_property of each key
  nagg,                    \* sizeof...(AGG_T)
  max_tag_id,              \* CTX_T::max_tag_id of the input context
  sub_task_start_tag,      \* ctx.get_sub_task_start_tag()
  prop,                    \* the graph: vertex -> value of the key property
  pc,                      \* plan | call | scan | done | fatal | illformed
  scanned,                 \* the rows `for (auto iter : ctx)` has yielded
  keyed_set_builder,       \* one key: the keyed (deduplicating) builder
  keyed_set_builder0,      \* two keys: raw builder over key column 0
  keyed_set_builder1,      \* two keys: raw builder over key column 1
  key_tuple_set,           \* two keys: the unordered_map pair -> index
  cur_ind,                 \* two keys: the next unused group index
  value_set_builder_tuple, \* one vector per aggregate
  calls,                   \* per row: the index fed, the key inserts made
  res_base_tag,            \* RES_T::base_tag_id
  res_head_tag,            \* RES_T's head tag (new_cur_alias / new_head_tag)
  out_cols,                \* the returned context's columns, prev... then head
  out_sub_task_start_tag,  \* the returned context's sub_task_start_tag
  offset_vec               \* the returned context's offset vectors

vars == <<mode, key_on_prop, nagg, max_tag_id, sub_task_start_tag, prop, pc,
          scanned, keyed_set_builder, keyed_set_builder0, keyed_set_builder1,
          key_tuple_set, cur_ind, value_set_builder_tuple, calls,
          res_base_tag, res_head_tag, out_cols, out_sub_task_start_tag,
          offset_vec>>

config == <<mode, key_on_prop, nagg, max_tag_id, sub_task_start_tag, prop>>

builders == <<keyed_set_builder, keyed_set_builder0, keyed_set_builder1,
              key_tuple_set, cur_ind, value_set_builder_tuple, calls>>

output == <<out_cols, out_sub_task_start_tag, offset_vec>>

\* ------------------------------------------------------ type resolution

\* CommonBuilderT is declared for every GROUP_KEY and defined only for
\* GroupKey<col_id, grape::EmptyType>: a key without a property selector.
\* (A variant with a definition for every key.)
CommonBuilderT_defined_any(on_prop) == TRUE

CommonBuilderT_defined(on_prop) == ~on_prop

\* GroupResT with one key: new_cur_alias = +sizeof...(AGG_T).
\* (A variant one too high.)
GroupResT_new_cur_alias_one_off(n) == n + 1

GroupResT_new_cur_alias_one(n) == n

\* GroupResT keyed by several sets: sizeof...(GROUP_KEY) + sizeof...(AGG_T) - 1.
\* (A variant without the - 1.)
GroupResT_new_cur_alias_off(nkeys, n) == nkeys + n

GroupResT_new_cur_alias(nkeys, n) == nkeys + n - 1

\* FoldResT: base_tag = CTX_T::max_tag_id + 1.
\* (A variant without the + 1.)
FoldResT_base_tag_same(m) == m

FoldResT_base_tag(m) == m + 1

\* FoldResT: new_head_tag = base_tag + sizeof...(AGG_T) - 1.
FoldResT_new_head_tag(m, n) == FoldResT_base_tag(m) + n - 1

\* Rearrange<new_head_tag, base_tag, Nodes...>: the last node is the head, the
\* nodes before it the previous columns, in the order given; with one node
\* the previous columns are grape::EmptyType (none).
Rearrange(nodes) == nodes

\* The input context's column at tag t (tags 0 .. max_tag_id).
InputColumn(t) == [kind |-> "input", idx |-> t, data |-> <<>>]

\* ---------------------------------------------------- external builders

\* AggregateProp i of the plan: the descriptors alternate COUNT, TO_LIST.
AggFuncOf(i) == IF i % 2 = 1 THEN "COUNT" ELSE "TO_LIST"

EmptyEntry(f) == IF f = "COUNT" THEN 0 ELSE <<>>

\* create_keyed_value_set_builder_tuple: one empty builder per aggregate.
create_keyed_value_set_builder_tuple(n) == [i \in 1 .. n |-> <<>>]

RECURSIVE GrowTo(_, _, _)
GrowTo(vec, ind, f) ==
  IF Len(vec) <= ind THEN GrowTo(Append(vec, EmptyEntry(f)), ind, f) ELSE vec

\* A value builder's insert(ind, ele_tuple, data_tuple): entry ind is created
\* (with every missing entry below it) and takes the row in.
BuilderInsert(f, vec, ind, row) ==
  LET g == GrowTo(vec, ind, f)
  IN  [g EXCEPT ![ind + 1] = IF f = "COUNT" THEN @ + 1 ELSE Append(@, row.d)]

\* The keyed set builder's insert: the index of the key's first occurrence,
\* or the next unused index for a key not seen before.
KeyedInsert(b, key) ==
  IF \E i \in 1 .. Len(b) : b[i] = key
  THEN [b |-> b, ind |-> (CHOOSE i \in 1 .. Len(b) : b[i] = key) - 1]
  ELSE [b |-> Append(b, key), ind |-> Len(b)]

\* insert_into_builder_v2_impl on a raw (non-deduplicating) builder.
insert_into_builder_v2_impl(b, ele) == Append(b, ele)

\* make_offset_vector(vec_num, vec_size): vec_num vectors 0, 1, .., vec_size.
make_offset_vector(vec_num, vec_size) ==
  [i \in 1 .. vec_num |-> [j \in 1 .. vec_size + 1 |-> j - 1]]

\* ------------------------------------------------------------ GroupByOp

\* insert_to_value_set_builder<Is>: builder Is takes the row at ind, then
\* the builders after it do.
\* (A variant that stops after builder Is.)
insert_to_value_set_builder_first_only(Is, vsb, row, ind) ==
  [vsb EXCEPT ![Is + 1] = BuilderInsert(AggFuncOf(Is + 1), @, ind, row)]

RECURSIVE insert_to_value_set_builder(_, _, _, _)
insert_to_value_set_builder(Is, vsb, row, ind) ==
  LET one == [vsb EXCEPT ![Is + 1] = BuilderInsert(AggFuncOf(Is + 1), @, ind, row)]
  IN  IF Is + 1 < Len(vsb)
      THEN insert_to_value_set_builder(Is + 1, one, row, ind)
      ELSE one

\* build_value_set_tuple: every builder's Build(), as a column.
build_value_set_tuple(vsb) ==
  [i \in 1 .. Len(vsb) |-> [kind |-> "agg", idx |-> i, data |-> vsb[i]]]

\* A finalized key column: Build() of key builder i.
KeyColumn(i, set) == [kind |-> "key", idx |-> i, data |-> set]

\* The rows a context of each path can yield.
Rows(m) ==
  IF m = "single"
  THEN [k0 : Vertices, k1 : {NoKey}, d : DataVals, off : {0}]
  ELSE IF m = "two"
  THEN [k0 : Key0Set, k1 : Key1Set, d : DataVals, off : {0}]
  ELSE [k0 : {NoKey}, k1 : {NoKey}, d : DataVals, off : 0 .. MaxOff]

Init ==
  /\ mode \in Modes
  /\ key_on_prop \in IF mode = "single" THEN {<<FALSE, FALSE>>, <<TRUE, FALSE>>}
                     ELSE IF mode = "two" THEN BOOLEAN \X BOOLEAN
                     ELSE {<<FALSE, FALSE>>}
  /\ nagg \in 1 .. MaxAgg
  /\ max_tag_id \in IF mode = "fold" THEN 0 .. MaxTag ELSE {MaxTag}
  /\ sub_task_start_tag \in IF mode = "fold"
                            THEN {INVALID_TAG} \cup (0 .. max_tag_id)
                            ELSE {INVALID_TAG}
  /\ prop \in Graphs
  /\ pc = "plan"
  /\ scanned = <<>>
  /\ keyed_set_builder = <<>>
  /\ keyed_set_builder0 = <<>>
  /\ keyed_set_builder1 = <<>>
  /\ key_tuple_set = <<>>
  /\ cur_ind = 0
  /\ value_set_builder_tuple = <<>>
  /\ calls = <<>>
  /\ res_base_tag = INVALID_TAG
  /\ res_head_tag = INVALID_TAG
  /\ out_cols = <<>>
  /\ out_sub_task_start_tag = INVALID_TAG
  /\ offset_vec = <<>>


\* ------------------------------------------------------- instantiation

\* The call's RES_T default argument is resolved: FoldResT for the key-less
\* call, GroupResT (one key) or GroupResT (keyed by two sets) otherwise. The
\* latter names CommonBuilderT<CTX_T, GROUP_KEY>::result_t for each key, so a
\* plan with a key CommonBuilderT is not defined for cannot be built.
Instantiate ==
  /\ pc = "plan"
  /\ IF mode = "fold"
     THEN /\ res_base_tag' = FoldResT_base_tag(max_tag_id)
          /\ res_head_tag' = FoldResT_new_head_tag(max_tag_id, nagg)
          /\ pc' = "call"
     ELSE IF mode = "single"
     THEN /\ res_base_tag' = 0
          /\ res_head_tag' = GroupResT_new_cur_alias_one(nagg)
          /\ pc' = "call"
     ELSE IF CommonBuilderT_defined(key_on_prop[1])
             /\ CommonBuilderT_defined(key_on_prop[2])
     THEN /\ res_base_tag' = 0
          /\ res_head_tag' = GroupResT_new_cur_alias(2, nagg)
          /\ pc' = "call"
     ELSE /\ pc' = "illformed"
          /\ UNCHANGED <<res_base_tag, res_head_tag>>
  /\ UNCHANGED <<config, scanned, builders, output>>

\* ------------------------------------------- GroupByWithoutKeyImpl (fold)

\* (A variant without the test.)
SubTaskTagMissing_never(tag) == FALSE

\* if (ctx.get_sub_task_start_tag() == INVALID_TAG) LOG(FATAL)
SubTaskTagMissing(tag) == tag = INVALID_TAG

\* The call takes std::tuple<FOLD_OPT>: exactly one aggregate.
GroupByWithoutKeyImpl_Begin ==
  /\ pc = "call"
  /\ mode = "fold"
  /\ nagg = 1
  /\ IF SubTaskTagMissing(sub_task_start_tag)
     THEN /\ pc' = "fatal"
          /\ UNCHANGED value_set_builder_tuple
     ELSE /\ pc' = "scan"
          /\ value_set_builder_tuple' = create_keyed_value_set_builder_tuple(nagg)
  /\ UNCHANGED <<config, scanned, keyed_set_builder, keyed_set_builder0,
                 keyed_set_builder1, key_tuple_set, cur_ind, calls,
                 res_base_tag, res_head_tag, output>>

\* (A variant putting every row in one group, index 0.)
FoldInd_Zero(row) == 0

\* The group index of a row: iter.GetTagOffset(start_tag).
FoldInd(row) == row.off

\* One iteration of `for (auto iter : ctx)`. The offsets of successive rows in
\* an earlier column never decrease.
GroupByWithoutKeyImpl_Row ==
  /\ pc = "scan"
  /\ mode = "fold"
  /\ Len(scanned) < MaxRows
  /\ \E row \in Rows("fold") :
       /\ Len(scanned) > 0 => scanned[Len(scanned)].off <= row.off
       /\ scanned' = Append(scanned, row)
       /\ value_set_builder_tuple' =
            insert_to_value_set_builder(0, value_set_builder_tuple, row, FoldInd(row))
       /\ calls' = Append(calls, [ind |-> FoldInd(row), ins0 |-> 0, ins1 |-> 0])
  /\ UNCHANGED <<config, pc, keyed_set_builder, keyed_set_builder0,
                 keyed_set_builder1, key_tuple_set, cur_ind,
                 res_base_tag, res_head_tag, output>>

\* return RES_T(std::move(std::get<0>(value_set_built)),
\*              ctx.get_sub_task_start_tag());
FoldResultColumns(value_set_built) == Rearrange(<<value_set_built[1]>>)

GroupByWithoutKeyImpl_Return ==
  /\ pc = "scan"
  /\ mode = "fold"
  /\ pc' = "done"
  /\ out_cols' = FoldResultColumns(build_value_set_tuple(value_set_builder_tuple))
  /\ out_sub_task_start_tag' = sub_task_start_tag
  /\ UNCHANGED <<config, scanned, builders, res_base_tag, res_head_tag, offset_vec>>

\* ------------------------------------------------- GroupByImpl, one key

GroupByImpl_OneKey_Begin ==
  /\ pc = "call"
  /\ mode = "single"
  /\ pc' = "scan"
  /\ keyed_set_builder' = <<>>
  /\ value_set_builder_tuple' = create_keyed_value_set_builder_tuple(nagg)
  /\ UNCHANGED <<config, scanned, keyed_set_builder0, keyed_set_builder1,
                 key_tuple_set, cur_ind, calls, res_base_tag, res_head_tag,
                 output>>

\* The key of a row: prop_getter.get_view(key_ele) when the key is on a
\* property, the index element itself otherwise.
OneKeyOf(on_prop, graph, row) == IF on_prop THEN graph[row.k0] ELSE row.k0

\* (A variant feeding index 0 whatever the builder returned.)
OneKeyRow_IndZero(ksb, vsb, key, row) ==
  LET r == KeyedInsert(ksb, key)
  IN  [ksb |-> r.b, ind |-> 0,
       vsb |-> insert_to_value_set_builder(0, vsb, row, 0)]

\* (A variant feeding the builder's size instead of the index returned.)
OneKeyRow_SizeAsInd(ksb, vsb, key, row) ==
  LET r == KeyedInsert(ksb, key)
  IN  [ksb |-> r.b, ind |-> Len(r.b),
       vsb |-> insert_to_value_set_builder(0, vsb, row, Len(r.b))]

\* size_t ind = insert_to_keyed_set(keyed_set_builder, key_ele, data_ele);
\* insert_to_value_set_builder(value_set_builder_tuple, ele_tuple, data_tuple, ind);
OneKeyRow(ksb, vsb, key, row) ==
  LET r == KeyedInsert(ksb, key)
  IN  [ksb |-> r.b, ind |-> r.ind,
       vsb |-> insert_to_value_set_builder(0, vsb, row, r.ind)]

GroupByImpl_OneKey_Row ==
  /\ pc = "scan"
  /\ mode = "single"
  /\ Len(scanned) < MaxRows
  /\ \E row \in Rows("single") :
       LET r == OneKeyRow(keyed_set_builder, value_set_builder_tuple,
                          OneKeyOf(key_on_prop[1], prop, row), row)
       IN  /\ scanned' = Append(scanned, row)
           /\ keyed_set_builder' = r.ksb
           /\ value_set_builder_tuple' = r.vsb
           /\ calls' = Append(calls,
                [ind |-> r.ind,
                 ins0 |-> Len(r.ksb) - Len(keyed_set_builder),
                 ins1 |-> 0])
  /\ UNCHANGED <<config, pc, keyed_set_builder0, keyed_set_builder1,
                 key_tuple_set, cur_ind, res_base_tag, res_head_tag, output>>

\* new_tuple = tuple_cat(make_tuple(keyed_set_built), value_set_built);
\* RES_T res(get<grouped_value_num>(new_tuple),
\*           tuple_slice<0, grouped_value_num>(new_tuple), offset_vec);
OneKeyResultColumns(keyed_set_built, value_set_built) ==
  Rearrange(<<KeyColumn(0, keyed_set_built)>> \o value_set_built)

\* (A variant with one vector more, one per column of the result.)
OneKeyOffsetVector_PerColumn(n, size) == make_offset_vector(n + 1, size)

\* auto offset_vec =
\*     make_offset_vector(grouped_value_num, keyed_set_built.Size());
OneKeyOffsetVector(n, size) == make_offset_vector(n, size)

GroupByImpl_OneKey_Return ==
  /\ pc = "scan"
  /\ mode = "single"
  /\ pc' = "done"
  /\ out_cols' = OneKeyResultColumns(keyed_set_builder,
                   build_value_set_tuple(value_set_builder_tuple))
  /\ offset_vec' = OneKeyOffsetVector(nagg, Len(keyed_set_builder))
  /\ UNCHANGED <<config, scanned, builders, res_base_tag, res_head_tag,
                 out_sub_task_start_tag>>


\* ------------------------------------------------ GroupByImpl, two keys

\* Value builders are created first. Then `if constexpr` takes the grouping
\* branch when neither key is on a property. The other branch holds only
\* static_assert("Not implemented"), whose condition is a string literal (a
\* non-null pointer, true): it never fires, and control then flows off the end
\* of a function returning RES_T, which is undefined: the call may return
\* anything or crash.
GroupByImpl_TwoKeys_Begin ==
  /\ pc = "call"
  /\ mode = "two"
  /\ value_set_builder_tuple' = create_keyed_value_set_builder_tuple(nagg)
  /\ IF ~key_on_prop[1] /\ ~key_on_prop[2]
     THEN /\ pc' = "scan"
          /\ keyed_set_builder0' = <<>>
          /\ keyed_set_builder1' = <<>>
          /\ key_tuple_set' = <<>>
          /\ cur_ind' = 0
     ELSE /\ pc' \in {"done", "fatal"}
          /\ UNCHANGED <<keyed_set_builder0, keyed_set_builder1,
                         key_tuple_set, cur_ind>>
  /\ UNCHANGED <<config, scanned, keyed_set_builder, calls, res_base_tag,
                 res_head_tag, output>>

\* (A variant inserting key0's element on every row.)
TwoKeysRow_InsertAlways(b0, b1, kts, cur, row) ==
  LET tmp_ele == <<row.k0, row.k1>>
  IN  IF tmp_ele \in DOMAIN kts
      THEN [b0 |-> insert_into_builder_v2_impl(b0, row.k0), b1 |-> b1,
            kts |-> kts, cur |-> cur, ind |-> 0]
      ELSE [b0 |-> insert_into_builder_v2_impl(b0, row.k0),
            b1 |-> insert_into_builder_v2_impl(b1, row.k1),
            kts |-> kts @@ (tmp_ele :> cur), cur |-> cur + 1, ind |-> cur]

\* (A variant with ind = ++cur_ind.)
TwoKeysRow_IndAfterIncrement(b0, b1, kts, cur, row) ==
  LET tmp_ele == <<row.k0, row.k1>>
  IN  IF tmp_ele \in DOMAIN kts
      THEN [b0 |-> b0, b1 |-> b1, kts |-> kts, cur |-> cur, ind |-> 0]
      ELSE [b0 |-> insert_into_builder_v2_impl(b0, row.k0),
            b1 |-> insert_into_builder_v2_impl(b1, row.k1),
            kts |-> kts @@ (tmp_ele :> cur + 1), cur |-> cur + 1,
            ind |-> cur + 1]

\* The key resolution of one row:
\*   size_t ind = 0;
\*   if (key_tuple_set.find(tmp_ele) != key_tuple_set.end()) {
\*     auto ind = key_tuple_set[tmp_ele];    // a new ind, of the inner block
\*   } else {
\*     ind = cur_ind++;
\*     insert_into_builder_v2_impl(keyed_set_builder0, key_ele0, data_ele0);
\*     insert_into_builder_v2_impl(keyed_set_builder1, key_ele1, data_ele1);
\*     key_tuple_set[tmp_ele] = ind;
\*   }
\* The `auto ind` of the first branch is a declaration: it names a variable
\* of the inner block and leaves the outer ind, the one fed below, at 0.
TwoKeysRow(b0, b1, kts, cur, row) ==
  LET tmp_ele == <<row.k0, row.k1>>
      ind == 0
  IN  IF tmp_ele \in DOMAIN kts
      THEN LET inner_ind == kts[tmp_ele]
           IN  [b0 |-> b0, b1 |-> b1, kts |-> kts, cur |-> cur, ind |-> ind]
      ELSE [b0 |-> insert_into_builder_v2_impl(b0, row.k0),
            b1 |-> insert_into_builder_v2_impl(b1, row.k1),
            kts |-> kts @@ (tmp_ele :> cur), cur |-> cur + 1, ind |-> cur]

GroupByImpl_TwoKeys_Row ==
  /\ pc = "scan"
  /\ mode = "two"
  /\ Len(scanned) < MaxRows
  /\ \E row \in Rows("two") :
       LET r == TwoKeysRow(keyed_set_builder0, keyed_set_builder1,
                           key_tuple_set, cur_ind, row)
       IN  /\ scanned' = Append(scanned, row)
           /\ keyed_set_builder0' = r.b0
           /\ keyed_set_builder1' = r.b1
           /\ key_tuple_set' = r.kts
           /\ cur_ind' = r.cur
           /\ value_set_builder_tuple' =
                insert_to_value_set_builder(0, value_set_builder_tuple, row, r.ind)
           /\ calls' = Append(calls,
                [ind |-> r.ind,
                 ins0 |-> Len(r.b0) - Len(keyed_set_builder0),
                 ins1 |-> Len(r.b1) - Len(keyed_set_builder1)])
  /\ UNCHANGED <<config, pc, keyed_set_builder, res_base_tag, res_head_tag,
                 output>>

\* new_tuple = tuple_cat(make_tuple(keyed_set_built0),
\*                       make_tuple(keyed_set_built1), value_set_built);
TwoKeysResultColumns(keyed_set_built0, keyed_set_built1, value_set_built) ==
  Rearrange(<<KeyColumn(0, keyed_set_built0), KeyColumn(1, keyed_set_built1)>>
            \o value_set_built)

\* auto offset_vec =
\*     make_offset_vector(grouped_value_num + 1, keyed_set_built0.Size());
TwoKeysOffsetVector(n, size) == make_offset_vector(n + 1, size)

\* CHECK(keyed_set_built0.Size() == keyed_set_built1.Size()) aborts the call.
GroupByImpl_TwoKeys_Return ==
  /\ pc = "scan"
  /\ mode = "two"
  /\ IF Len(keyed_set_builder0) = Len(keyed_set_builder1)
     THEN /\ pc' = "done"
          /\ out_cols' = TwoKeysResultColumns(keyed_set_builder0,
                           keyed_set_builder1,
                           build_value_set_tuple(value_set_builder_tuple))
          /\ offset_vec' = TwoKeysOffsetVector(nagg, Len(keyed_set_builder0))
     ELSE /\ pc' = "fatal"
          /\ UNCHANGED <<out_cols, offset_vec>>
  /\ UNCHANGED <<config, scanned, builders, res_base_tag, res_head_tag,
                 out_sub_task_start_tag>>

\* ---------------------------------------------------------------- system

Next ==
  \/ Instantiate
  \/ GroupByWithoutKeyImpl_Begin
  \/ GroupByWithoutKeyImpl_Row
  \/ GroupByWithoutKeyImpl_Return
  \/ GroupByImpl_OneKey_Begin
  \/ GroupByImpl_OneKey_Row
  \/ GroupByImpl_OneKey_Return
  \/ GroupByImpl_TwoKeys_Begin
  \/ GroupByImpl_TwoKeys_Row
  \/ GroupByImpl_TwoKeys_Return

Spec == Init /\ [][Next]_vars


\* ------------------------------------------------ reference definitions

\* The grouping key of the i-th row scanned.
RowKey(i) ==
  IF mode = "single"
  THEN (IF key_on_prop[1] THEN prop[scanned[i].k0] ELSE scanned[i].k0)
  ELSE <<scanned[i].k0, scanned[i].k1>>

Seen(i) == \E j \in 1 .. i - 1 : RowKey(j) = RowKey(i)

FirstPos(i) ==
  CHOOSE j \in 1 .. i :
    RowKey(j) = RowKey(i) /\ \A m \in 1 .. j - 1 : RowKey(m) # RowKey(i)

\* The group of row i: the number of distinct keys met before its key was.
GroupOf(i) == Cardinality({RowKey(m) : m \in 1 .. FirstPos(i) - 1})

NGroups == Cardinality({RowKey(i) : i \in 1 .. Len(scanned)})

RowsOfGroup(g) == {i \in 1 .. Len(scanned) : GroupOf(i) = g}

IndsFed == [i \in 1 .. Len(calls) |-> calls[i].ind]

RECURSIVE DataOfGroup(_, _)
\* The data of the rows of group g among the first n rows, in scan order.
DataOfGroup(g, n) ==
  IF n = 0 THEN <<>>
  ELSE IF GroupOf(n) = g
       THEN Append(DataOfGroup(g, n - 1), scanned[n].d)
       ELSE DataOfGroup(g, n - 1)

Keyed == mode \in {"single", "two"}
Looping == pc \in {"scan", "done"}

\* The returned context addresses its columns by tag: base tag first, head
\* tag last.
HasTag(t) ==
  /\ res_base_tag <= t
  /\ t <= res_head_tag
  /\ t - res_base_tag + 1 <= Len(out_cols)

ColumnAt(t) == out_cols[t - res_base_tag + 1]

AggColumns == {c \in {out_cols[p] : p \in 1 .. Len(out_cols)} : c.kind = "agg"}

\* ---------------------------------------------------------------- claims

\* C1: with two keys, a row whose (key0, key1) pair was met before is fed to
\* the value builders with the index recorded for the pair at its first
\* occurrence, and inserts nothing into either key builder.
C1_RepeatPairReusesIndex ==
  (mode = "two" /\ Looping) =>
    \A i \in 1 .. Len(scanned) :
      Seen(i) =>
        /\ calls[i].ind = key_tuple_set[RowKey(i)]
        /\ calls[i].ind = calls[FirstPos(i)].ind
        /\ calls[i].ins0 = 0
        /\ calls[i].ins1 = 0

\* C2: with one key, the i-th distinct key met gets index i (from 0), and
\* every row is fed to the value builders with the index of its key: the
\* indices are dense and in first-occurrence order.
C2_DenseFirstOccurrence ==
  (mode = "single" /\ Looping) =>
    /\ Len(calls) = Len(scanned)
    /\ \A i \in 1 .. Len(scanned) :
         /\ calls[i].ind = GroupOf(i)
         /\ keyed_set_builder[calls[i].ind + 1] = RowKey(i)
    /\ {calls[i].ind : i \in 1 .. Len(calls)} = 0 .. NGroups - 1
    /\ Len(keyed_set_builder) = NGroups

C2_Witness ==
  /\ mode = "single"
  /\ pc = "scan"
  /\ IndsFed = <<0, 1, 0, 2>>

\* C3: with one key, the finalized COUNT column holds, at every group g, the
\* number of rows whose key resolves to g.
C3_CountPerGroup ==
  (mode = "single" /\ pc = "done") =>
    \A c \in AggColumns :
      AggFuncOf(c.idx) = "COUNT" =>
        /\ Len(c.data) = NGroups
        /\ \A g \in 0 .. NGroups - 1 :
             c.data[g + 1] = Cardinality(RowsOfGroup(g))

C3_Witness ==
  /\ mode = "single"
  /\ pc = "done"
  /\ [i \in 1 .. Len(scanned) |-> scanned[i].k0] = <<"A", "A", "B", "C">>
  /\ ~key_on_prop[1]
  /\ out_cols[1].data = <<"A", "B", "C">>
  /\ out_cols[2].data = <<2, 1, 1>>

\* C4: with two keys, both key builders hold as many elements as there are
\* distinct pairs among the rows scanned, so the two finalized key columns
\* have that size and the size CHECK never aborts the call.
C4_KeyColumnsSameSize ==
  mode = "two" =>
    /\ pc # "fatal"
    /\ Looping =>
         /\ Len(keyed_set_builder0) = NGroups
         /\ Len(keyed_set_builder1) = NGroups
    /\ pc = "done" =>
         /\ Len(out_cols[1].data) = NGroups
         /\ Len(out_cols[2].data) = NGroups

C4_Witness ==
  /\ mode = "two"
  /\ pc = "done"
  /\ Len(scanned) = 4
  /\ Len(out_cols[1].data) = 2
  /\ Len(out_cols[2].data) = 2
  /\ out_cols[1].data[1] = out_cols[1].data[2]

\* C5: with one or two keys, the number of groups is the size of the
\* finalized key column(s), every finalized value set has exactly one entry
\* per group, and no index outside 0 .. groups-1 is fed to a value builder.
C5_OneEntryPerGroup ==
  (Keyed /\ Looping) =>
    /\ \A i \in 1 .. Len(calls) : calls[i].ind \in 0 .. NGroups - 1
    /\ \A a \in 1 .. Len(value_set_builder_tuple) :
         Len(value_set_builder_tuple[a]) = NGroups
    /\ pc = "done" =>
         /\ Len(out_cols[1].data) = NGroups
         /\ \A c \in AggColumns : Len(c.data) = NGroups
         /\ Cardinality(AggColumns) = nagg

C5_Witness ==
  /\ mode = "two"
  /\ pc = "done"
  /\ nagg = 2
  /\ Len(scanned) = 4
  /\ NGroups = 3
  /\ Seen(3)

\* C6: the list a TO_LIST aggregate produces for a group holds exactly the
\* values of the rows whose key resolves to that group, in scan order.
C6_ToListPerGroup ==
  (Keyed /\ pc = "done") =>
    \A c \in AggColumns :
      AggFuncOf(c.idx) = "TO_LIST" =>
        \A g \in 0 .. NGroups - 1 :
          /\ g + 1 <= Len(c.data)
          /\ c.data[g + 1] = DataOfGroup(g, Len(scanned))

\* With one key the lists are the groups' values in scan order.
ToListPerGroup_OneKey ==
  (mode = "single" /\ pc = "done") =>
    \A c \in AggColumns :
      AggFuncOf(c.idx) = "TO_LIST" =>
        /\ Len(c.data) = NGroups
        /\ \A g \in 0 .. NGroups - 1 :
             c.data[g + 1] = DataOfGroup(g, Len(scanned))

\* C7: the key-less call on a context whose sub_task_start_tag is
\* INVALID_TAG ends fatally, with no value builder created, no row scanned
\* and no context returned.
C7_FoldWithoutStartTagIsFatal ==
  (mode = "fold" /\ sub_task_start_tag = INVALID_TAG) =>
    /\ pc \in {"plan", "call", "fatal"}
    /\ value_set_builder_tuple = <<>>
    /\ scanned = <<>>
    /\ out_cols = <<>>

C7_Witness ==
  /\ mode = "fold"
  /\ sub_task_start_tag = INVALID_TAG
  /\ pc = "fatal"

\* C8: a two-key plan with a key on a property never scans a row and never
\* returns a context: it is rejected when it is built.
C8_PropertyTwoKeysRejected ==
  (mode = "two" /\ (key_on_prop[1] \/ key_on_prop[2])) =>
    /\ pc \in {"plan", "illformed"}
    /\ scanned = <<>>
    /\ out_cols = <<>>

C8_Witness ==
  /\ mode = "two"
  /\ key_on_prop[1]
  /\ ~key_on_prop[2]
  /\ pc = "illformed"

\* C9: the returned context has base tag 0 and head tag n with one key (key
\* at tag 0, aggregates at 1 .. n), base tag 0 and head tag n+1 with two keys
\* (keys at 0 and 1, aggregates at 2 .. n+1), and base tag m+1 and head tag
\* m+n for the key-less call on a context whose highest tag is m.
C9_OutputTags ==
  /\ (mode = "single" /\ pc \notin {"plan"}) =>
       /\ res_base_tag = 0
       /\ res_head_tag = nagg
       /\ pc = "done" =>
            /\ Len(out_cols) = res_head_tag - res_base_tag + 1
            /\ ColumnAt(0).kind = "key"
            /\ \A t \in 1 .. nagg :
                 ColumnAt(t).kind = "agg" /\ ColumnAt(t).idx = t
  /\ (mode = "two" /\ pc \notin {"plan", "illformed"}) =>
       /\ res_base_tag = 0
       /\ res_head_tag = nagg + 1
       /\ pc = "done" =>
            /\ Len(out_cols) = res_head_tag - res_base_tag + 1
            /\ ColumnAt(0).kind = "key" /\ ColumnAt(0).idx = 0
            /\ ColumnAt(1).kind = "key" /\ ColumnAt(1).idx = 1
            /\ \A t \in 2 .. nagg + 1 :
                 ColumnAt(t).kind = "agg" /\ ColumnAt(t).idx = t - 1
  /\ (mode = "fold" /\ pc \notin {"plan"}) =>
       /\ res_base_tag = max_tag_id + 1
       /\ res_head_tag = max_tag_id + nagg
       /\ pc = "done" =>
            /\ Len(out_cols) = res_head_tag - res_base_tag + 1
            /\ ColumnAt(max_tag_id + 1).kind = "agg"

C9_Witness ==
  /\ mode = "two"
  /\ pc = "done"
  /\ nagg = 2
  /\ res_base_tag = 0
  /\ res_head_tag = 3
  /\ Len(out_cols) = 4

\* C10, as stated: the context the key-less call returns still holds every
\* column of the input context at its old tag, and the aggregate column at a
\* tag above the input's highest.
C10_FoldKeepsInputColumns ==
  (mode = "fold" /\ pc = "done") =>
    /\ \A t \in 0 .. max_tag_id : HasTag(t) /\ ColumnAt(t) = InputColumn(t)
    /\ \E t \in max_tag_id + 1 .. res_head_tag :
         HasTag(t) /\ ColumnAt(t).kind = "agg"

\* C10, amended: the context the key-less call returns is a new one that
\* holds the aggregate column alone, at tag max_tag_id + 1, above every tag
\* of the input context; no column of the input is in it, and no tag of the
\* input is taken by it.
C10_FoldReturnsAggregateAlone ==
  (mode = "fold" /\ pc = "done") =>
    /\ Len(out_cols) = 1
    /\ out_cols[1].kind = "agg"
    /\ res_base_tag = max_tag_id + 1
    /\ res_head_tag = max_tag_id + 1
    /\ HasTag(max_tag_id + 1)
    /\ \A t \in 0 .. max_tag_id : ~HasTag(t)
    /\ \A p \in 1 .. Len(out_cols) : out_cols[p].kind # "input"

C10_Witness ==
  /\ mode = "fold"
  /\ pc = "done"
  /\ max_tag_id = 2
  /\ Len(scanned) = 2
  /\ out_cols[1].data = <<2>>


NKeys == IF mode = "single" THEN 1 ELSE 2

OffsetVectorsWellFormed ==
  \A v \in 1 .. Len(offset_vec) :
    /\ Len(offset_vec[v]) = NGroups + 1
    /\ \A j \in 1 .. Len(offset_vec[v]) - 1 :
         offset_vec[v][j] <= offset_vec[v][j + 1]

\* C11, as stated: the returned context of a keyed grouping has one offset
\* vector per column, key columns and value columns alike (1 + n with one
\* key, 2 + n with two), each of length groups + 1 and non-decreasing.
C11_OffsetVectorPerColumn ==
  (Keyed /\ pc = "done") =>
    /\ Len(offset_vec) = NKeys + nagg
    /\ OffsetVectorsWellFormed

\* C11, amended: the returned context of a keyed grouping has one offset
\* vector per column but the head, that is n vectors with one key and n
\* aggregates and n + 1 with two keys, each of length groups + 1 and
\* non-decreasing.
C11_OffsetVectorPerPrevColumn ==
  (Keyed /\ pc = "done") =>
    /\ Len(offset_vec) = NKeys + nagg - 1
    /\ Len(offset_vec) = Len(out_cols) - 1
    /\ OffsetVectorsWellFormed

C11_Witness ==
  /\ mode = "single"
  /\ pc = "done"
  /\ nagg = 2
  /\ NGroups = 3
  /\ offset_vec = <<<<0, 1, 2, 3>>, <<0, 1, 2, 3>>>>


\* The rows among the first n scanned that were fed with index g.
RowsFedAt(g) == {i \in 1 .. Len(calls) : calls[i].ind = g}

RECURSIVE DataFedAt(_, _)
\* The data of the rows fed with index g among the first n, in scan order.
DataFedAt(g, n) ==
  IF n = 0 THEN <<>>
  ELSE IF calls[n].ind = g
       THEN Append(DataFedAt(g, n - 1), scanned[n].d)
       ELSE DataFedAt(g, n - 1)

\* Builder a holds what one insert per row, at the index the row was fed
\* with, leaves in it.
BuilderHoldsRowsFed(a) ==
  LET vec == value_set_builder_tuple[a]
  IN  /\ \A i \in 1 .. Len(calls) : calls[i].ind + 1 <= Len(vec)
      /\ \A g \in 0 .. Len(vec) - 1 :
           IF AggFuncOf(a) = "COUNT"
           THEN vec[g + 1] = Cardinality(RowsFedAt(g))
           ELSE vec[g + 1] = DataFedAt(g, Len(calls))

\* C12: in the key-less call with a valid sub_task_start_tag every row is
\* accumulated at the index that is its offset in the start tag's column,
\* whatever its values: two rows share an index exactly when they share that
\* offset, and the returned context carries the input's sub_task_start_tag.
C12_FoldIndexIsStartTagOffset ==
  (mode = "fold" /\ Looping) =>
    /\ sub_task_start_tag # INVALID_TAG
    /\ Len(calls) = Len(scanned)
    /\ \A i \in 1 .. Len(scanned) : calls[i].ind = scanned[i].off
    /\ \A i, j \in 1 .. Len(scanned) :
         (calls[i].ind = calls[j].ind) <=> (scanned[i].off = scanned[j].off)
    /\ \A g \in 0 .. Len(value_set_builder_tuple[1]) - 1 :
         value_set_builder_tuple[1][g + 1] =
           Cardinality({i \in 1 .. Len(scanned) : scanned[i].off = g})
    /\ pc = "done" =>
         /\ out_sub_task_start_tag = sub_task_start_tag
         /\ out_cols[1].data = value_set_builder_tuple[1]

C12_Witness ==
  /\ mode = "fold"
  /\ pc = "done"
  /\ sub_task_start_tag = 1
  /\ Len(scanned) = 3
  /\ scanned[1].off = 0 /\ scanned[2].off = 2 /\ scanned[3].off = 2
  /\ scanned[1].d = scanned[2].d
  /\ scanned[2].d # scanned[3].d
  /\ out_cols[1].data = <<1, 0, 2>>
  /\ out_sub_task_start_tag = 1


\* The rows builder a holds at entry g.
EntryRows(a, g) ==
  IF AggFuncOf(a) = "COUNT"
  THEN value_set_builder_tuple[a][g + 1]
  ELSE Len(value_set_builder_tuple[a][g + 1])

RECURSIVE TotalRows(_, _)
\* The rows builder a holds in its first n entries.
TotalRows(a, n) == IF n = 0 THEN 0 ELSE TotalRows(a, n - 1) + EntryRows(a, n - 1)

\* The key builders hold the key of row i at the index the row was fed with.
KeyResolvedAt(i) ==
  IF mode = "single"
  THEN /\ calls[i].ind + 1 <= Len(keyed_set_builder)
       /\ keyed_set_builder[calls[i].ind + 1] = RowKey(i)
  ELSE /\ calls[i].ind + 1 <= Len(keyed_set_builder0)
       /\ calls[i].ind + 1 <= Len(keyed_set_builder1)
       /\ <<keyed_set_builder0[calls[i].ind + 1],
            keyed_set_builder1[calls[i].ind + 1]>> = RowKey(i)

====
